---- MODULE Spec2Model ----
(***************************************************************************)
(* A model of rrrocket's parsing orchestration layer (src/src/lib.rs) and  *)
(* of the state handling of its GUI front end                              *)
(* (src/src/bin/rrrocket_gui.rs).                                          *)
(*                                                                         *)
(* Three specifications share the module:                                  *)
(*   Spec        ReplayParser: configuration, parse_bytes, parse_file and  *)
(*               parse_path, one call at a time, parse_file stepping       *)
(*               through its system calls;                                 *)
(*   SpecExpand  expand_paths / expand_directory as a pull-based iterator; *)
(*   SpecGui     RrrocketGui's event handlers.                             *)
(*                                                                         *)
(* The Decoder (boxcars), the glob crate and the operating system are the  *)
(* environment.  Their outcomes are nondeterministic where the code        *)
(* cannot control them (open, mmap and read may fail) and follow their     *)
(* documented behaviour otherwise.                                         *)
(***************************************************************************)
EXTENDS Integers, Sequences, FiniteSets, TLC

VARIABLES
    parser,      \* the ReplayParser value: [crc_check, network_parse]
    configured,  \* history: some setter has been applied since new()
    lastSet,     \* history: the value each policy was last set to, if any
    fs,          \* the files parse_file can be asked for: path -> file state
    calls,       \* per caller: the parse_file / parse_path call it is in
    files,       \* expand_paths: the argument list
    entries,     \* expand_paths: kind of each entry glob enumerates under Dir
    iter,        \* expand_paths: the FlatMap iterator state
    yielded,     \* expand_paths: items the consumer has pulled so far
    fsLog,       \* expand_paths: filesystem accesses made so far
    stopped,     \* expand_paths: the consumer dropped the iterator
    gui,         \* RrrocketGui's fields
    guiHist      \* history of the GUI's parse attempts

parserVars == <<parser, configured, lastSet, fs, calls>>
expandVars == <<files, entries, iter, yielded, fsLog, stopped>>
guiVars    == <<gui, guiHist>>
vars       == <<parser, configured, lastSet, fs, calls, files, entries, iter, yielded,
                fsLog, stopped, gui, guiHist>>

(***************************************************************************)
(* Bounds.                                                                 *)
(***************************************************************************)
MaxLen     == 3   \* longest file content, in bytes
NumCallers == 2   \* callers (threads) that may hold a facade reference

Byte    == {0, 1}
Bytes   == UNION {[1..n -> Byte] : n \in 0..MaxLen}
Paths   == {"a.replay", "b.replay"}
Callers == 1..NumCallers
\* The core is synchronous: Spec runs one caller, the first.
MainCaller == CHOOSE t \in Callers : \A u \in Callers : t <= u

(***************************************************************************)
(* The file system seen by parse_file.                                     *)
(***************************************************************************)
NoFile      == [kind |-> "none", data |-> <<>>]
Directory   == [kind |-> "dir",  data |-> <<>>]
Regular(b)  == [kind |-> "file", data |-> b]
FileStates  == {NoFile, Directory} \cup {Regular(b) : b \in Bytes}

(***************************************************************************)
(* The Decoder: boxcars' ParserBuilder::parse, a deterministic function of *)
(* the bytes and the two policies.  A replay is a header byte, a network   *)
(* byte and a checksum byte over the two.                                  *)
(***************************************************************************)
HeaderOk(b) == Len(b) >= 1 /\ b[1] = 1
NetOk(b)    == Len(b) >= 2 /\ b[2] = 1
CrcOk(b)    == Len(b) >= 3 /\ b[3] = (b[1] + b[2]) % 2

\* An Option is a sequence of at most one element.
Some(x) == <<x>>
None    == <<>>

NoReplay == <<>>
NoPath   == ""

Outcome(tag, replay, kind) ==
    [tag |-> tag, replay |-> replay, kind |-> kind, context |-> <<>>, path |-> NoPath]
NoResult         == Outcome("none", NoReplay, "")
OkReplay(r)      == Outcome("ok", r, "")
DecodeError(k)   == Outcome("decode", NoReplay, k)
\* `?` on an io::Error: anyhow::Error::from, an error with no context.
IoError(op)      == Outcome("io", NoReplay, op)

\* A section failed to parse: under Always and OnError the checksum decides
\* which error is reported.
SectionError(b, crc, kind) ==
    IF crc \in {"Always", "OnError"} /\ ~CrcOk(b)
    THEN DecodeError("CrcMismatch")
    ELSE DecodeError(kind)

Decode(b, crc, net) ==
    IF crc = "Always" /\ ~CrcOk(b) THEN DecodeError("CrcMismatch")
    ELSE IF ~HeaderOk(b) THEN SectionError(b, crc, "MalformedHeader")
    ELSE IF net = "Always" /\ ~NetOk(b) THEN SectionError(b, crc, "CorruptBody")
    ELSE OkReplay(<<b[1]>> \o (IF net = "Always" THEN <<b[2]>> ELSE <<>>))

(***************************************************************************)
(* ReplayParser.                                                           *)
(***************************************************************************)
Default == [crc_check |-> FALSE, network_parse |-> FALSE]
new     == Default

with_crc_check(self, b)     == [self EXCEPT !.crc_check = b]
with_network_parse(self, b) == [self EXCEPT !.network_parse = b]
\* Mutant of set_crc_check: the setter rebuilds the facade from new().
set_crc_check_fresh(self, b) == [new EXCEPT !.crc_check = b]
set_crc_check(self, b)      == [self EXCEPT !.crc_check = b]
set_network_parse(self, b)  == [self EXCEPT !.network_parse = b]
crc_check(self)             == self.crc_check
network_parse(self)         == self.network_parse

\* No setter has been applied to either policy.
NeverSet == [crc_check |-> None, network_parse |-> None]

\* Mutant of CrcPolicy: forced CRC mapped to the OnError policy.
CrcPolicyNever(self) == "OnError"
CrcPolicy(self) == IF self.crc_check THEN "Always" ELSE "OnError"
NetPolicy(self) == IF self.network_parse THEN "Always" ELSE "Never"

\* The policy pair parse_bytes hands the ParserBuilder.
Policy(self) == <<CrcPolicy(self), NetPolicy(self)>>
NoPolicy     == <<>>

parse_bytes(self, data) == Decode(data, Policy(self)[1], Policy(self)[2])

(***************************************************************************)
(* parse_file, one system call at a time.  A call record holds the         *)
(* position in parse_file, the resources the call owns and what it has     *)
(* done so far.                                                            *)
(***************************************************************************)
Idle ==
    [pc |-> "idle", api |-> "", path |-> NoPath, cfg |-> Default,
     held |-> {}, bytes |-> <<>>, via |-> "", policy |-> NoPolicy,
     failed |-> {}, opens |-> 0, maps |-> 0, reads |-> 0, decodes |-> 0,
     result |-> NoResult]

Entered(self, api, p) == [Idle EXCEPT !.pc = "open", !.api = api, !.path = p, !.cfg = self]

\* let file = fs::File::open(path)?;
OpenStep(fsv, c, ok) ==
    IF ok /\ fsv[c.path].kind # "none"
    THEN [c EXCEPT !.pc = "map", !.opens = @ + 1, !.held = @ \cup {"file"}]
    ELSE [c EXCEPT !.pc = "done", !.opens = @ + 1, !.failed = @ \cup {"open"},
                   !.result = IoError("open")]

\* Mutant of MapStep: a mapping failure fails the call, no fallback.
MapStepNoFallback(fsv, c, ok) ==
    IF ok /\ fsv[c.path].kind = "file"
    THEN [c EXCEPT !.pc = "decode", !.maps = @ + 1, !.held = @ \cup {"mmap"},
                   !.bytes = fsv[c.path].data, !.via = "mmap"]
    ELSE [c EXCEPT !.pc = "ret", !.maps = @ + 1, !.failed = @ \cup {"map"},
                   !.result = IoError("map")]
\* let mmap = unsafe { MmapOptions::new().map(&file) };
MapStep(fsv, c, ok) ==
    IF ok /\ fsv[c.path].kind = "file"
    THEN [c EXCEPT !.pc = "decode", !.maps = @ + 1, !.held = @ \cup {"mmap"},
                   !.bytes = fsv[c.path].data, !.via = "mmap"]
    ELSE [c EXCEPT !.pc = "read", !.maps = @ + 1, !.failed = @ \cup {"map"}]

\* Mutant of ReadStep: the fallback read loses the last byte of the file.
ReadStepShort(fsv, c, ok) ==
    IF ok /\ fsv[c.path].kind = "file"
    THEN [c EXCEPT !.pc = "decode", !.reads = @ + 1, !.opens = @ + 1,
                   !.held = @ \cup {"buffer"},
                   !.bytes = SubSeq(fsv[c.path].data, 1, Len(fsv[c.path].data) - 1),
                   !.via = "read"]
    ELSE [c EXCEPT !.pc = "ret", !.reads = @ + 1, !.opens = @ + 1,
                   !.failed = @ \cup {"read"}, !.result = IoError("read")]
\* Err(_) => { let data = fs::read(path)?; ... }: the `?` leaves parse_file,
\* which drops `file`.  fs::read is given the path, not `file`: it opens the
\* path itself, reads it to the end and closes its handle.
ReadStep(fsv, c, ok) ==
    IF ok /\ fsv[c.path].kind = "file"
    THEN [c EXCEPT !.pc = "decode", !.reads = @ + 1, !.opens = @ + 1,
                   !.held = @ \cup {"buffer"},
                   !.bytes = fsv[c.path].data, !.via = "read"]
    ELSE [c EXCEPT !.pc = "ret", !.reads = @ + 1, !.opens = @ + 1,
                   !.failed = @ \cup {"read"}, !.result = IoError("read")]

\* Mutant of DecodeStep: a decode error on the mapped bytes is retried on a
\* buffered read.
DecodeStepRetry(self, c) ==
    IF c.via = "mmap" /\ parse_bytes(self, c.bytes).tag = "decode"
    THEN [c EXCEPT !.pc = "read", !.decodes = @ + 1, !.policy = Policy(self),
                   !.held = @ \ {"mmap", "buffer"}, !.bytes = <<>>]
    ELSE [c EXCEPT !.pc = "ret", !.decodes = @ + 1, !.policy = Policy(self),
                   !.result = parse_bytes(self, c.bytes),
                   !.held = @ \ {"mmap", "buffer"}, !.bytes = <<>>]
\* Mutant of DecodeStep: the outcome depends on more than the bytes and the
\* configuration; bytes that did not come from a mapping are decoded with the
\* CRC check forced.
DecodeStepByOrigin(self, c) ==
    [c EXCEPT !.pc = "ret", !.decodes = @ + 1, !.policy = Policy(self),
              !.result = IF c.via = "mmap" THEN parse_bytes(self, c.bytes)
                         ELSE parse_bytes([self EXCEPT !.crc_check = TRUE], c.bytes),
              !.held = @ \ {"mmap", "buffer"}, !.bytes = <<>>]
\* self.parse_bytes(&mapped) / self.parse_bytes(&data); the arm's binding
\* (`mapped` or `data`) is dropped at the end of the arm.
DecodeStep(self, c) ==
    [c EXCEPT !.pc = "ret", !.decodes = @ + 1, !.policy = Policy(self),
              !.result = parse_bytes(self, c.bytes),
              !.held = @ \ {"mmap", "buffer"}, !.bytes = <<>>]

\* Mutant of parse_path: the document is returned without the path.
parse_path_bare(c, r) == r
\* parse_path: Ok(ParsedReplay { path, replay }) on success, the error of
\* parse_file otherwise.
parse_path(c, r) ==
    IF c.api = "parse_path" /\ r.tag = "ok" THEN [r EXCEPT !.path = c.path] ELSE r

\* Mutant of ReturnStep: the file handle outlives the call.
ReturnStepLeak(c) ==
    [c EXCEPT !.pc = "done", !.result = parse_path(c, @)]
\* }?; Ok(replay): parse_file returns and `file` goes out of scope.
ReturnStep(c) ==
    [c EXCEPT !.pc = "done", !.held = @ \ {"file"}, !.result = parse_path(c, @)]

StepCall(self, fsv, c, ok) ==
    CASE c.pc = "open"   -> OpenStep(fsv, c, ok)
      [] c.pc = "map"    -> MapStep(fsv, c, ok)
      [] c.pc = "read"   -> ReadStep(fsv, c, ok)
      [] c.pc = "decode" -> DecodeStep(self, c)
      [] c.pc = "ret"    -> ReturnStep(c)
      [] OTHER           -> c

SysCalls == {"open", "map", "read"}

\* The outcomes the operating system can give one call's system calls.  A
\* system call that is not reached has no outcome: it is fixed to TRUE.
Envs ==
    {e \in [SysCalls -> BOOLEAN] :
        /\ ~e["open"] => e["map"] /\ e["read"]
        /\ e["map"] => e["read"]}

\* A whole call: env[pc] is the outcome the operating system gives the
\* system call made at pc.
RECURSIVE RunCall(_, _, _, _)
RunCall(self, fsv, c, env) ==
    IF c.pc \in {"done", "idle"} THEN c
    ELSE RunCall(self, fsv,
                 StepCall(self, fsv, c, IF c.pc \in SysCalls THEN env[c.pc] ELSE TRUE),
                 env)

InFlight(c) == c.pc \notin {"idle", "done"}

(***************************************************************************)
(* Actions of Spec.                                                        *)
(***************************************************************************)
InitParser ==
    /\ parser = new
    /\ configured = FALSE
    /\ lastSet = NeverSet
    /\ fs \in [Paths -> FileStates]
    /\ calls = [t \in Callers |-> Idle]

\* &mut self / self by value: no call borrows the facade.
Unborrowed == \A t \in Callers : ~InFlight(calls[t])

WithCrcCheck(b) ==
    /\ Unborrowed
    /\ parser' = with_crc_check(parser, b)
    /\ configured' = TRUE
    /\ lastSet' = [lastSet EXCEPT !.crc_check = Some(b)]
    /\ UNCHANGED <<fs, calls>>

WithNetworkParse(b) ==
    /\ Unborrowed
    /\ parser' = with_network_parse(parser, b)
    /\ configured' = TRUE
    /\ lastSet' = [lastSet EXCEPT !.network_parse = Some(b)]
    /\ UNCHANGED <<fs, calls>>

SetCrcCheck(b) ==
    /\ Unborrowed
    /\ parser' = set_crc_check(parser, b)
    /\ configured' = TRUE
    /\ lastSet' = [lastSet EXCEPT !.crc_check = Some(b)]
    /\ UNCHANGED <<fs, calls>>

SetNetworkParse(b) ==
    /\ Unborrowed
    /\ parser' = set_network_parse(parser, b)
    /\ configured' = TRUE
    /\ lastSet' = [lastSet EXCEPT !.network_parse = Some(b)]
    /\ UNCHANGED <<fs, calls>>

ParseFile(t, p) ==
    /\ calls[t].pc = "idle"
    /\ calls' = [calls EXCEPT ![t] = Entered(parser, "parse_file", p)]
    /\ UNCHANGED <<parser, configured, lastSet, fs>>

ParsePath(t, p) ==
    /\ calls[t].pc = "idle"
    /\ calls' = [calls EXCEPT ![t] = Entered(parser, "parse_path", p)]
    /\ UNCHANGED <<parser, configured, lastSet, fs>>

\* Mutant of Step: the bytes to decode are kept in one buffer that all calls
\* share, so a call decodes what another call in flight has loaded.
StepSharedBuffer(t) ==
    /\ InFlight(calls[t])
    /\ \E ok \in BOOLEAN :
           LET others == {u \in Callers \ {t} : calls[u].bytes # <<>>}
               mine   == IF calls[t].pc = "decode" /\ others # {}
                         THEN [calls[t] EXCEPT
                                  !.bytes = calls[CHOOSE u \in others : TRUE].bytes]
                         ELSE calls[t]
           IN  calls' = [calls EXCEPT ![t] = StepCall(parser, fs, mine, ok)]
    /\ UNCHANGED <<parser, configured, lastSet, fs>>
\* One step of the call of caller t: every local of parse_file (`file`,
\* `mapped`, `data`) belongs to that call.
Step(t) ==
    /\ InFlight(calls[t])
    /\ \E ok \in BOOLEAN : calls' = [calls EXCEPT ![t] = StepCall(parser, fs, @, ok)]
    /\ UNCHANGED <<parser, configured, lastSet, fs>>

\* The caller is done with the result of its call.
Discard(t) ==
    /\ calls[t].pc = "done"
    /\ calls' = [calls EXCEPT ![t] = Idle]
    /\ UNCHANGED <<parser, configured, lastSet, fs>>

(***************************************************************************)
(* expand_paths and expand_directory.                                      *)
(*                                                                         *)
(* A path is a root and an entry number: entry 0 is the root itself,       *)
(* entry k > 0 the k-th path that glob enumerates under the directory Dir. *)
(* `entries` gives, in glob's enumeration order, what each of those paths  *)
(* is: a regular file, something else that matches (a directory, a broken  *)
(* symlink), or a directory glob cannot read (a GlobError).                *)
(***************************************************************************)
MaxArgs    == 2   \* longest argument list
MaxEntries == 3   \* most paths glob enumerates under Dir

Path(root, k) == [root |-> root, entry |-> k]
FileOne     == Path("a/file1.replay", 0)   \* an existing regular file
Dir         == Path("dir", 0)              \* an existing directory
Missing     == Path("nodir", 0)            \* does not exist
BadPattern  == Path("bad[", 0)             \* no file, and no valid glob pattern
Inside(k)   == Path("dir", k)
ArgSet      == {FileOne, Dir, Missing, BadPattern, Inside(1)}
EntryKinds  == {"file", "other", "error"}

OkItem(p)         == [tag |-> "ok",  path |-> p, cause |-> ""]
\* An anyhow error; `path` is the path its message names.
ErrItem(p, cause) == [tag |-> "err", path |-> p, cause |-> cause]

\* Path::is_file: an existing regular file.
is_file(ents, p) ==
    IF p.entry = 0 THEN p = FileOne
    ELSE p.entry <= Len(ents) /\ ents[p.entry] = "file"

\* glob::Pattern::new on "<dir>/**/*.replay".
PatternOk(dir) == dir # BadPattern

\* What glob::Paths enumerates for a root, in order: the matches under Dir;
\* an unreadable directory given as the root is reported as a GlobError; a
\* root that does not exist, or holds no match, enumerates nothing.
Listing(ents, root) ==
    IF root = Dir
    THEN [k \in 1..Len(ents) |-> [path |-> Inside(k), kind |-> ents[k]]]
    ELSE IF root.entry > 0 /\ root.entry <= Len(ents) /\ ents[root.entry] = "error"
    THEN <<[path |-> root, kind |-> "error"]>>
    ELSE <<>>

Access(i, op, k) == [arg |-> i, op |-> op, pos |-> k]

NoInner     == [tag |-> "none", item |-> None,    pos |-> 0, arg |-> 0]
Once(i, x)  == [tag |-> "once", item |-> Some(x), pos |-> 0, arg |-> i]
GlobPaths(i) == [tag |-> "glob", item |-> None,   pos |-> 0, arg |-> i]

\* glob::Paths::next: the next enumerated entry, if any.
PathsNext(ents, root, inner) ==
    IF inner.pos >= Len(Listing(ents, root))
    THEN [inner |-> inner, entry |-> None, log |-> {}]
    ELSE [inner |-> [inner EXCEPT !.pos = @ + 1],
          entry |-> Some(Listing(ents, root)[inner.pos + 1]),
          log   |-> {Access(inner.arg, "step", inner.pos + 1)}]

\* Mutant of filter_entry: a match that is not a regular file is reported.
filter_entry_strict(ents, e) ==
    IF e.kind = "error" THEN Some(ErrItem(e.path, "glob"))
    ELSE IF is_file(ents, e.path) THEN Some(OkItem(e.path))
    ELSE Some(ErrItem(e.path, "not a file"))
\* The closure of filter_map: Ok(path) => is_file ? Some(Ok(path)) : None,
\* Err(err) => Some(Err(err.into())).
filter_entry(ents, e) ==
    IF e.kind = "error" THEN Some(ErrItem(e.path, "glob"))
    ELSE IF is_file(ents, e.path) THEN Some(OkItem(e.path))
    ELSE None

\* Mutant of FilterMapNext: the first enumeration error ends the sequence.
RECURSIVE FilterMapNextFused(_, _, _, _)
FilterMapNextFused(ents, root, inner, log) ==
    LET n == PathsNext(ents, root, inner) IN
    IF n.entry = None THEN [inner |-> n.inner, item |-> None, log |-> log]
    ELSE LET e   == n.entry[1]
             out == filter_entry(ents, e)
             lg  == log \cup n.log
                     \cup (IF e.kind = "error" THEN {}
                           ELSE {Access(inner.arg, "check", n.inner.pos)})
         IN IF out # None /\ out[1].tag = "err"
            THEN [inner |-> [n.inner EXCEPT !.pos = Len(Listing(ents, root))],
                  item |-> out, log |-> lg]
            ELSE IF out # None THEN [inner |-> n.inner, item |-> out, log |-> lg]
            ELSE FilterMapNextFused(ents, root, n.inner, lg)
\* FilterMap::next: pull entries from glob until the closure keeps one.
RECURSIVE FilterMapNext(_, _, _, _)
FilterMapNext(ents, root, inner, log) ==
    LET n == PathsNext(ents, root, inner) IN
    IF n.entry = None THEN [inner |-> n.inner, item |-> None, log |-> log]
    ELSE LET e   == n.entry[1]
             out == filter_entry(ents, e)
             lg  == log \cup n.log
                     \cup (IF e.kind = "error" THEN {}
                           ELSE {Access(inner.arg, "check", n.inner.pos)})
         IN IF out # None THEN [inner |-> n.inner, item |-> out, log |-> lg]
            ELSE FilterMapNext(ents, root, n.inner, lg)

\* expand_directory: the pattern is formed and compiled; a pattern error is
\* the only item, otherwise the filtered glob enumeration.
expand_directory(dir, i) ==
    [inner |-> IF PatternOk(dir) THEN GlobPaths(i)
               ELSE Once(i, ErrItem(dir, "unable to form glob")),
     log   |-> {Access(i, "glob", 0)}]

\* Mutant of ExpandArg: every argument is handed to expand_directory.
ExpandArgGlobOnly(ents, p, i) == expand_directory(p, i)
\* The closure of flat_map in expand_paths.
ExpandArg(ents, p, i) ==
    IF is_file(ents, p)
    THEN [inner |-> Once(i, OkItem(p)), log |-> {Access(i, "is_file", 0)}]
    ELSE [inner |-> expand_directory(p, i).inner,
          log   |-> {Access(i, "is_file", 0)} \cup expand_directory(p, i).log]

\* next() of the iterator an argument was expanded to.
InnerNext(ents, args, inner) ==
    IF inner.tag = "once"
    THEN [inner |-> [inner EXCEPT !.item = None], item |-> inner.item, log |-> {}]
    ELSE FilterMapNext(ents, args[inner.arg], inner, {})

NewIter == [created |-> FALSE, idx |-> 0, front |-> NoInner, done |-> FALSE, pulls |-> 0]

\* Mutant of expand_paths: the arguments are classified when the iterator
\* is built.
expand_paths_eager(ents, args) ==
    [it  |-> [NewIter EXCEPT !.created = TRUE],
     log |-> {Access(i, "is_file", 0) : i \in 1..Len(args)}]
\* expand_paths(files): files.iter().flat_map(..), nothing evaluated yet.
expand_paths(ents, args) ==
    [it |-> [NewIter EXCEPT !.created = TRUE], log |-> {}]

\* FlatMap::next: drain the front iterator, then map the next argument.
RECURSIVE FlatMapNext(_, _, _, _)
FlatMapNext(ents, args, it, log) ==
    IF it.front.tag # "none"
    THEN LET r == InnerNext(ents, args, it.front) IN
         IF r.item # None
         THEN [it |-> [it EXCEPT !.front = r.inner], item |-> r.item,
               log |-> log \cup r.log]
         ELSE FlatMapNext(ents, args, [it EXCEPT !.front = NoInner], log \cup r.log)
    ELSE IF it.idx >= Len(args)
    THEN [it |-> [it EXCEPT !.done = TRUE], item |-> None, log |-> log]
    ELSE LET x == ExpandArg(ents, args[it.idx + 1], it.idx + 1) IN
         FlatMapNext(ents, args, [it EXCEPT !.idx = @ + 1, !.front = x.inner],
                     log \cup x.log)

(***************************************************************************)
(* Actions of SpecExpand.                                                  *)
(***************************************************************************)
ExpandPaths ==
    /\ ~iter.created
    /\ iter' = expand_paths(entries, files).it
    /\ fsLog' = fsLog \cup expand_paths(entries, files).log
    /\ UNCHANGED <<files, entries, yielded, stopped>>

\* The consumer calls next() once.
Pull ==
    /\ iter.created /\ ~iter.done /\ ~stopped
    /\ LET r == FlatMapNext(entries, files, iter, {}) IN
        /\ iter' = [r.it EXCEPT !.pulls = @ + 1]
        /\ fsLog' = fsLog \cup r.log
        /\ yielded' = IF r.item = None THEN yielded
                      ELSE Append(yielded, [arg |-> r.it.front.arg,
                                            pos |-> r.it.front.pos,
                                            item |-> r.item[1]])
    /\ UNCHANGED <<files, entries, stopped>>

\* The consumer stops pulling before the end.
Stop ==
    /\ iter.created /\ ~iter.done /\ ~stopped
    /\ stopped' = TRUE
    /\ UNCHANGED <<files, entries, iter, yielded, fsLog>>

InitExpandIdle ==
    /\ files = <<>>
    /\ entries = <<>>
    /\ iter = NewIter
    /\ yielded = <<>>
    /\ fsLog = {}
    /\ stopped = FALSE

InitParserIdle ==
    /\ parser = new
    /\ configured = FALSE
    /\ lastSet = NeverSet
    /\ fs = [p \in Paths |-> NoFile]
    /\ calls = [t \in Callers |-> Idle]

(***************************************************************************)
(* RrrocketGui.  An Option is a sequence of at most one element.           *)
(***************************************************************************)
\* serde_json::to_string_pretty(&replay): the document as JSON text.
Json(replay) == [header |-> Head(replay), frames |-> Tail(replay)]

\* format!("{err:#}"): the context chain, then the cause.
Display(r)            == [what |-> r.tag, kind |-> r.kind, names |-> r.context]
SerializeMessage      == [what |-> "serialize", kind |-> "", names |-> <<>>]
SaveMessage(dest)     == [what |-> "save", kind |-> "", names |-> <<dest>>]
SavedStatus(dest)     == [what |-> "saved", kind |-> "", names |-> <<dest>>]

NewGui ==
    [parser |-> Default, last_path |-> None, last_json |-> None,
     last_error |-> None, last_status |-> None]

\* self.parser.parse_file(&path), run to its return.
ParseFileResult(self, fsv, p, env) ==
    RunCall(self, fsv, Entered(self, "parse_file", p), env).result

\* Mutant of load_path: the status of an earlier save stays on display.
load_path_stale_status(g, fsv, p, env, serOk) ==
    LET r == ParseFileResult(g.parser, fsv, p, env)
        h == [g EXCEPT !.last_path = Some(p)]
    IN  IF r.tag = "ok" /\ serOk
        THEN [h EXCEPT !.last_json = Some(Json(r.replay)), !.last_error = None]
        ELSE IF r.tag = "ok"
        THEN [h EXCEPT !.last_error = Some(SerializeMessage), !.last_json = None]
        ELSE [h EXCEPT !.last_error = Some(Display(r)), !.last_json = None]
\* Mutant of load_path: a failed attempt keeps the JSON of the last success.
load_path_keep(g, fsv, p, env, serOk) ==
    LET r == ParseFileResult(g.parser, fsv, p, env)
        h == [g EXCEPT !.last_path = Some(p), !.last_status = None]
    IN  IF r.tag = "ok" /\ serOk
        THEN [h EXCEPT !.last_json = Some(Json(r.replay)), !.last_error = None]
        ELSE IF r.tag = "ok"
        THEN [h EXCEPT !.last_error = Some(SerializeMessage)]
        ELSE [h EXCEPT !.last_error = Some(Display(r))]
load_path(g, fsv, p, env, serOk) ==
    LET r == ParseFileResult(g.parser, fsv, p, env)
        h == [g EXCEPT !.last_path = Some(p), !.last_status = None]
    IN  IF r.tag = "ok" /\ serOk
        THEN [h EXCEPT !.last_json = Some(Json(r.replay)), !.last_error = None]
        ELSE IF r.tag = "ok"
        THEN [h EXCEPT !.last_error = Some(SerializeMessage), !.last_json = None]
        ELSE [h EXCEPT !.last_error = Some(Display(r)), !.last_json = None]

\* Mutant of reparse_last: nothing is parsed again.
reparse_last_never(g, fsv, env, serOk) == g
\* if let Some(path) = self.last_path.clone() { self.load_path(path); }
reparse_last(g, fsv, env, serOk) ==
    IF g.last_path # None THEN load_path(g, fsv, g.last_path[1], env, serOk) ELSE g

\* Mutant of save_json: a failed write drops the JSON on display.
save_json_drop(g, dest, ok) ==
    IF g.last_json = None THEN g
    ELSE IF dest = None THEN g
    ELSE IF ok
    THEN [g EXCEPT !.last_status = Some(SavedStatus(dest[1])), !.last_error = None]
    ELSE [g EXCEPT !.last_error = Some(SaveMessage(dest[1])), !.last_status = None,
                   !.last_json = None]
\* dest is what the save dialog returned, ok whether fs::write succeeded.
save_json(g, dest, ok) ==
    IF g.last_json = None THEN g
    ELSE IF dest = None THEN g
    ELSE IF ok
    THEN [g EXCEPT !.last_status = Some(SavedStatus(dest[1])), !.last_error = None]
    ELSE [g EXCEPT !.last_error = Some(SaveMessage(dest[1])), !.last_status = None]

\* History of parse attempts: how the last one ended (the error shown for
\* it, if it failed), which event made it, whether their number is odd, and
\* the JSON and the path of the last one that succeeded.
NoHistory ==
    [attempt |-> "none", by |-> "none", odd |-> FALSE, path |-> None,
     good |-> None, goodPath |-> None, error |-> None]

Attempted(h, by, self, fsv, p, env, serOk) ==
    LET r == ParseFileResult(self, fsv, p, env) IN
    IF r.tag = "ok" /\ serOk
    THEN [attempt |-> "ok", by |-> by, odd |-> ~h.odd, path |-> Some(p),
          good |-> Some(Json(r.replay)), goodPath |-> Some(p), error |-> None]
    ELSE [attempt |-> "failed", by |-> by, odd |-> ~h.odd, path |-> Some(p),
          good |-> h.good, goodPath |-> h.goodPath,
          error |-> Some(IF r.tag = "ok" THEN SerializeMessage ELSE Display(r))]

Reattempted(h, by, g, fsv, env, serOk) ==
    IF g.last_path # None
    THEN Attempted(h, by, g.parser, fsv, g.last_path[1], env, serOk)
    ELSE h

(***************************************************************************)
(* Actions of SpecGui: the events update() handles.                        *)
(***************************************************************************)
\* "Open Replay..." with a file picked.
OpenReplay(p) ==
    \E env \in Envs, serOk \in BOOLEAN :
        /\ gui' = load_path(gui, fs, p, env, serOk)
        /\ guiHist' = Attempted(guiHist, "open", gui.parser, fs, p, env, serOk)
        /\ UNCHANGED fs

\* "Reload".
Reload ==
    \E env \in Envs, serOk \in BOOLEAN :
        /\ gui' = reparse_last(gui, fs, env, serOk)
        /\ guiHist' = Reattempted(guiHist, "reload", gui, fs, env, serOk)
        /\ UNCHANGED fs

\* The "Force CRC check" checkbox changed.
ToggleCrc ==
    \E env \in Envs, serOk \in BOOLEAN :
        LET g == [gui EXCEPT !.parser = set_crc_check(@, ~crc_check(gui.parser))] IN
        /\ gui' = reparse_last(g, fs, env, serOk)
        /\ guiHist' = Reattempted(guiHist, "config", g, fs, env, serOk)
        /\ UNCHANGED fs

\* The "Parse network data" checkbox changed.
ToggleNetwork ==
    \E env \in Envs, serOk \in BOOLEAN :
        LET g == [gui EXCEPT !.parser =
                        set_network_parse(@, ~network_parse(gui.parser))] IN
        /\ gui' = reparse_last(g, fs, env, serOk)
        /\ guiHist' = Reattempted(guiHist, "config", g, fs, env, serOk)
        /\ UNCHANGED fs

SaveDests == {"out.json"}
\* What the save dialog can return: nothing (cancelled) or a destination.
SaveChoices == {None} \cup {Some(d) : d \in SaveDests}

\* "Save to file...", shown while a JSON is displayed.
SaveJson ==
    \E dest \in SaveChoices, ok \in BOOLEAN :
        /\ gui.last_json # None
        /\ gui' = save_json(gui, dest, ok)
        /\ UNCHANGED <<guiHist, fs>>

InitGuiIdle ==
    /\ gui = NewGui
    /\ guiHist = NoHistory

InitExpand ==
    /\ files \in UNION {[1..n -> ArgSet] : n \in 1..MaxArgs}
    /\ entries \in UNION {[1..n -> EntryKinds] : n \in 0..MaxEntries}
    /\ iter = NewIter
    /\ yielded = <<>>
    /\ fsLog = {}
    /\ stopped = FALSE
    /\ InitParserIdle
    /\ InitGuiIdle

\* The files the GUI is pointed at: missing, a directory, empty, a sound
\* replay, one with a corrupt network stream, one with a wrong checksum.
GuiFiles ==
    {NoFile, Directory, Regular(<<>>), Regular(<<1, 1, 0>>), Regular(<<1, 0, 1>>),
     Regular(<<1, 1, 1>>)}

InitGui ==
    /\ parser = new
    /\ configured = FALSE
    /\ lastSet = NeverSet
    /\ fs \in [Paths -> GuiFiles]
    /\ calls = [t \in Callers |-> Idle]
    /\ gui = NewGui
    /\ guiHist = NoHistory
    /\ InitExpandIdle

Init == InitParser /\ InitExpandIdle /\ InitGuiIdle

Next ==
    \/ \E b \in BOOLEAN : WithCrcCheck(b) /\ UNCHANGED <<expandVars, guiVars>>
    \/ \E b \in BOOLEAN : WithNetworkParse(b) /\ UNCHANGED <<expandVars, guiVars>>
    \/ \E b \in BOOLEAN : SetCrcCheck(b) /\ UNCHANGED <<expandVars, guiVars>>
    \/ \E b \in BOOLEAN : SetNetworkParse(b) /\ UNCHANGED <<expandVars, guiVars>>
    \/ \E p \in Paths : ParseFile(MainCaller, p) /\ UNCHANGED <<expandVars, guiVars>>
    \/ \E p \in Paths : ParsePath(MainCaller, p) /\ UNCHANGED <<expandVars, guiVars>>
    \/ Step(MainCaller) /\ UNCHANGED <<expandVars, guiVars>>
    \/ Discard(MainCaller) /\ UNCHANGED <<expandVars, guiVars>>

Spec == Init /\ [][Next]_vars

NextExpand ==
    \/ ExpandPaths /\ UNCHANGED <<parserVars, guiVars>>
    \/ Pull /\ UNCHANGED <<parserVars, guiVars>>
    \/ Stop /\ UNCHANGED <<parserVars, guiVars>>

NextGui ==
    \/ \E p \in Paths : OpenReplay(p) /\ UNCHANGED <<parser, configured, lastSet, calls, expandVars>>
    \/ Reload /\ UNCHANGED <<parser, configured, lastSet, calls, expandVars>>
    \/ ToggleCrc /\ UNCHANGED <<parser, configured, lastSet, calls, expandVars>>
    \/ ToggleNetwork /\ UNCHANGED <<parser, configured, lastSet, calls, expandVars>>
    \/ SaveJson /\ UNCHANGED <<parser, configured, lastSet, calls, expandVars>>

SpecGui == InitGui /\ [][NextGui]_vars

SpecExpand == InitExpand /\ [][NextExpand]_vars

\* Several threads call parse_file through shared references to one facade
\* that was configured before they started (&self: nobody can reconfigure
\* it meanwhile).  The two paths hold a sound replay or one with a corrupt
\* network stream and a wrong checksum.
ConcFiles == {Regular(<<1, 1, 0>>), Regular(<<1, 0, 0>>)}

InitConc ==
    /\ parser \in {with_network_parse(with_crc_check(new, a), b) : a, b \in BOOLEAN}
    /\ configured = (parser # new)
    /\ lastSet = [crc_check |-> Some(parser.crc_check),
                  network_parse |-> Some(parser.network_parse)]
    /\ fs \in [Paths -> ConcFiles]
    /\ calls = [t \in Callers |-> Idle]
    /\ InitExpandIdle
    /\ InitGuiIdle

NextConc ==
    \/ \E t \in Callers, p \in Paths :
           ParseFile(t, p) /\ UNCHANGED <<expandVars, guiVars>>
    \/ \E t \in Callers : Step(t) /\ UNCHANGED <<expandVars, guiVars>>
    \/ \E t \in Callers : Discard(t) /\ UNCHANGED <<expandVars, guiVars>>

SpecConc == InitConc /\ [][NextConc]_vars

(***************************************************************************)
(* Claims about ReplayParser, checked under Spec.                          *)
(***************************************************************************)
Returned(c) == c.pc = "done"
\* What parse_file produced, without the path parse_path pairs it with.
FileResult(c) == [c.result EXCEPT !.path = NoPath]
\* The content of the file a call was made on.
ContentOf(c) == fs[c.path].data

\* C1: every Decoder invocation of parse_bytes is handed exactly the pair
\* (Always if crc_check else OnError, Always if network_parse else Never)
\* of the configuration the call was made with; a facade that was never
\* reconfigured since new() hands over (OnError, Never).
C1_PolicyPair ==
    \A t \in Callers :
        calls[t].decodes > 0 =>
            /\ calls[t].policy[1] =
                   (IF calls[t].cfg.crc_check THEN "Always" ELSE "OnError")
            /\ calls[t].policy[2] =
                   (IF calls[t].cfg.network_parse THEN "Always" ELSE "Never")
            /\ ~configured => calls[t].policy = <<"OnError", "Never">>

\* A decode under forced CRC and no network parsing got (Always, Never).
C1_Witness ==
    \E t \in Callers :
        /\ calls[t].decodes > 0
        /\ calls[t].cfg = [crc_check |-> TRUE, network_parse |-> FALSE]
        /\ calls[t].policy = <<"Always", "Never">>

\* C2: a parse_file call that obtained the file's bytes, by the mapping or
\* by the fallback read, has the outcome of parse_bytes on the file's
\* content under the same configuration.
C2_FileAsBytes ==
    \A t \in Callers :
        calls[t].decodes > 0 =>
            FileResult(calls[t]) = parse_bytes(calls[t].cfg, ContentOf(calls[t]))

\* A call returned a replay decoded from the fallback read.
C2_Witness ==
    \E t \in Callers :
        /\ Returned(calls[t])
        /\ calls[t].api = "parse_file"
        /\ calls[t].via = "read"
        /\ calls[t].result.tag = "ok"

\* C3: a returned call has an I/O error only if the open failed or both the
\* mapping and the fallback read failed; a mapping failure followed by a
\* successful read gives no I/O error; any other failure is the Decoder's
\* error for the file's bytes.
C3_IoErrorOnlyWhenBothFail ==
    \A t \in Callers :
        Returned(calls[t]) =>
            /\ calls[t].result.tag \in {"ok", "io", "decode"}
            /\ calls[t].result.tag = "io" =>
                   \/ "open" \in calls[t].failed
                   \/ {"map", "read"} \subseteq calls[t].failed
            /\ calls[t].failed = {"map"} => calls[t].result.tag # "io"
            /\ calls[t].result.tag = "decode" =>
                   /\ calls[t].decodes = 1
                   /\ calls[t].failed \subseteq {"map"}
                   /\ \E crc \in {"Always", "OnError"}, net \in {"Always", "Never"} :
                          calls[t].result = Decode(ContentOf(calls[t]), crc, net)

\* The mapping failed, the fallback read succeeded and the call returned a
\* replay.
C3_Witness ==
    \E t \in Callers :
        /\ Returned(calls[t])
        /\ calls[t].failed = {"map"}
        /\ calls[t].reads = 1
        /\ calls[t].result.tag = "ok"

\* C8: an I/O error returned by parse_file or parse_path names the path the
\* call was made on.
C8_IoErrorNamesPath ==
    \A t \in Callers :
        Returned(calls[t]) /\ calls[t].result.tag = "io" =>
            \E i \in DOMAIN calls[t].result.context :
                calls[t].result.context[i] = calls[t].path

\* C10: a call that has returned (and a caller that is in no call) holds no
\* file handle, mapping or read buffer.
C10_ReleasedOnReturn ==
    \A t \in Callers :
        calls[t].pc \in {"done", "idle"} => calls[t].held = {}

\* A call returned by the decode-error exit of the fallback branch, having
\* opened the file and read it into a buffer.
C10_Witness ==
    \E t \in Callers :
        /\ Returned(calls[t])
        /\ calls[t].opens = 2
        /\ calls[t].via = "read"
        /\ calls[t].result.tag = "decode"
        /\ calls[t].held = {}

\* C11 as stated: within one call the file is opened at most once, the
\* Decoder is invoked at most once, and the buffered read is attempted only
\* after the mapping attempt has failed, never after a decode on the mapped
\* bytes.
C11_NoRetries ==
    \A t \in Callers :
        /\ calls[t].opens <= 1
        /\ calls[t].decodes <= 1
        /\ calls[t].reads > 0 =>
               /\ calls[t].maps = 1
               /\ "map" \in calls[t].failed
               /\ calls[t].via # "mmap"

\* C11, amended: File::open is called once and never again, the mapping,
\* the buffered read and the Decoder are each tried at most once, the read
\* only after the mapping attempt has failed and never after a decode on
\* the mapped bytes; the file is opened a second time only by that read,
\* which is given the path.
C11_NoRetriesButReadReopens ==
    \A t \in Callers :
        /\ calls[t].opens <= 1 + calls[t].reads
        /\ calls[t].maps <= 1
        /\ calls[t].reads <= 1
        /\ calls[t].decodes <= 1
        /\ calls[t].reads > 0 =>
               /\ calls[t].maps = 1
               /\ "map" \in calls[t].failed
               /\ calls[t].via # "mmap"
        /\ calls[t].pc \notin {"idle", "open"} =>
               calls[t].opens = 1 + calls[t].reads

\* A call returned after the mapping failed and the read reopened the file:
\* two opens, one read, one decode.
C11_Witness ==
    \E t \in Callers :
        /\ Returned(calls[t])
        /\ calls[t].opens = 2
        /\ calls[t].maps = 1
        /\ calls[t].reads = 1
        /\ calls[t].decodes = 1

(***************************************************************************)
(* Claims about expand_paths, checked under SpecExpand.                    *)
(***************************************************************************)
\* What the consumer received, and what it received for argument i.
Items(y)     == [k \in 1..Len(y) |-> y[k].item]
OfArg(y, i)  == SelectSeq(y, LAMBDA r : r.arg = i)

\* The entries of a root that produce an item, in enumeration order.
Kept(ents, dir) ==
    SelectSeq(Listing(ents, dir), LAMBDA e : e.kind \in {"file", "error"})

\* The block of one argument: the argument itself if it is an existing
\* regular file, else what expand_directory yields for it.
DirectoryBlock(ents, dir) ==
    IF ~PatternOk(dir) THEN <<ErrItem(dir, "unable to form glob")>>
    ELSE [k \in 1..Len(Kept(ents, dir)) |->
            IF Kept(ents, dir)[k].kind = "file"
            THEN OkItem(Kept(ents, dir)[k].path)
            ELSE ErrItem(Kept(ents, dir)[k].path, "glob")]

Block(ents, p) ==
    IF is_file(ents, p) THEN <<OkItem(p)>> ELSE DirectoryBlock(ents, p)

RECURSIVE Blocks(_, _, _)
Blocks(ents, args, n) ==
    IF n = 0 THEN <<>> ELSE Blocks(ents, args, n - 1) \o Block(ents, args[n])

IsPrefix(s, t) == Len(s) <= Len(t) /\ s = SubSeq(t, 1, Len(s))

\* C4: once the sequence is exhausted, every nonexistent directory argument
\* has given at least one error item naming it, and every argument after it
\* has been expanded.
C4_MissingDirectoryReported ==
    iter.done =>
        \A i \in DOMAIN files :
            files[i] = Missing =>
                /\ \E k \in DOMAIN yielded :
                       /\ yielded[k].arg = i
                       /\ yielded[k].item.tag = "err"
                       /\ yielded[k].item.path = files[i]
                /\ \A j \in (i + 1)..Len(files) :
                       Items(OfArg(yielded, j)) = Block(entries, files[j])

\* C5: what has been yielded is a prefix of the concatenation, in argument
\* order, of the arguments' blocks, and all of it once the sequence is
\* exhausted.
C5_ConcatenationOfBlocks ==
    /\ IsPrefix(Items(yielded), Blocks(entries, files, Len(files)))
    /\ iter.done => Items(yielded) = Blocks(entries, files, Len(files))

\* [dir/1, dir] with three regular files under dir: dir/1 is yielded as the
\* file argument and again as a match under dir.
C5_Witness ==
    /\ iter.done
    /\ files = <<Inside(1), Dir>>
    /\ entries = <<"file", "file", "file">>
    /\ Items(yielded) = <<OkItem(Inside(1)), OkItem(Inside(1)), OkItem(Inside(2)),
                          OkItem(Inside(3))>>

\* C6: once the sequence is exhausted, a root whose pattern cannot be built
\* has given exactly one error item and nothing else; any other root has
\* given, in enumeration order, exactly one error item for each enumeration
\* error and exactly one path for each regular file, those after an error
\* included.
C6_ErrorsInPlace ==
    iter.done =>
        \A i \in DOMAIN files :
            ~is_file(entries, files[i]) =>
                IF ~PatternOk(files[i])
                THEN /\ Len(OfArg(yielded, i)) = 1
                     /\ OfArg(yielded, i)[1].item.tag = "err"
                     /\ OfArg(yielded, i)[1].item.path = files[i]
                ELSE /\ \A k \in DOMAIN Listing(entries, files[i]) :
                            LET e    == Listing(entries, files[i])[k]
                                hits == {n \in DOMAIN yielded :
                                            yielded[n].arg = i /\ yielded[n].pos = k}
                            IN  /\ e.kind = "error" =>
                                       /\ Cardinality(hits) = 1
                                       /\ \A n \in hits :
                                              /\ yielded[n].item.tag = "err"
                                              /\ yielded[n].item.path = e.path
                                /\ e.kind = "file" =>
                                       /\ Cardinality(hits) = 1
                                       /\ \A n \in hits :
                                              yielded[n].item = OkItem(e.path)
                                /\ e.kind = "other" => hits = {}
                     /\ \A m, n \in DOMAIN yielded :
                            m < n /\ yielded[m].arg = i /\ yielded[n].arg = i
                                => yielded[m].pos < yielded[n].pos

\* An enumeration error under dir was followed by a regular file and by a
\* further argument, and all three were yielded.
C6_Witness ==
    /\ iter.done
    /\ files = <<Dir, FileOne>>
    /\ entries = <<"error", "file">>
    /\ Len(yielded) = 3
    /\ yielded[1].item.tag = "err"

\* Argument i has been drained: the iterator has moved past it.
Exhausted(i) == iter.done \/ iter.idx > i

LastPos(i) ==
    IF OfArg(yielded, i) = <<>> THEN 0
    ELSE OfArg(yielded, i)[Len(OfArg(yielded, i))].pos

Lazy ==
    \A a \in fsLog :
        /\ a.arg <= iter.idx
        /\ \A j \in 1..(a.arg - 1) :
               Items(OfArg(yielded, j)) = Block(entries, files[j])
        /\ a.op \in {"step", "check"} =>
               Exhausted(a.arg) \/ a.pos <= LastPos(a.arg)

\* C7: the filesystem is accessed only inside a pull by a consumer that has
\* not stopped; an access for argument i happens only after every item of
\* the arguments before it has been consumed; and the walk of a directory
\* has gone no further than the entry of the last item yielded from it,
\* unless it was pulled to its end.
C7_LazyEnumeration ==
    [][/\ Lazy'
       /\ fsLog' # fsLog => ~stopped /\ iter.created /\ iter'.pulls = iter.pulls + 1
      ]_vars

\* The consumer pulled one item of [dir, file] and stopped: only the first
\* entry of dir has been visited and the second argument not at all.
C7_Witness ==
    /\ stopped
    /\ files = <<Dir, FileOne>>
    /\ entries = <<"file", "file", "file">>
    /\ Len(yielded) = 1
    /\ fsLog = {Access(1, "is_file", 0), Access(1, "glob", 0),
                Access(1, "step", 1), Access(1, "check", 1)}

(***************************************************************************)
(* Claims about the GUI, checked under SpecGui.                            *)
(***************************************************************************)
\* C9 as stated: after a failed attempt the GUI holds the error and still
\* holds the JSON of the last successful parse, if there was one.
C9_KeepsLastResult ==
    guiHist.attempt = "failed" =>
        /\ gui.last_error # None
        /\ guiHist.good # None => gui.last_json = guiHist.good

\* C9, amended: after a failed attempt the GUI holds the error of that
\* attempt and the attempted path, and holds no JSON.
C9_FailureClearsResult ==
    guiHist.attempt = "failed" =>
        /\ gui.last_error # None
        /\ gui.last_error = guiHist.error
        /\ gui.last_path = guiHist.path
        /\ gui.last_json = None

\* An attempt failed after an earlier one had succeeded.
C9_Witness ==
    /\ guiHist.attempt = "failed"
    /\ guiHist.good # None
    /\ gui.last_error # None

\* C12: every path yielded from the enumeration of a root is a regular file;
\* a match that is not a regular file (a directory, a broken symbolic link)
\* gives no item at all, neither a path nor an error; so a directory whose
\* enumeration meets no regular file and no error has, once drained, yielded
\* nothing.
C12_OnlyRegularFiles ==
    \A i \in DOMAIN files :
        ~is_file(entries, files[i]) /\ PatternOk(files[i]) =>
            /\ \A n \in DOMAIN yielded :
                   yielded[n].arg = i =>
                       /\ yielded[n].pos \in DOMAIN Listing(entries, files[i])
                       /\ Listing(entries, files[i])[yielded[n].pos].kind # "other"
                       /\ yielded[n].item.tag = "ok" =>
                              /\ is_file(entries, yielded[n].item.path)
                              /\ Listing(entries, files[i])[yielded[n].pos] =
                                     [path |-> yielded[n].item.path, kind |-> "file"]
            /\ (/\ Exhausted(i)
                /\ \A k \in DOMAIN Listing(entries, files[i]) :
                       Listing(entries, files[i])[k].kind = "other")
                   => OfArg(yielded, i) = <<>>

\* dir holds two matches, neither a regular file; the sequence was drained
\* and gave nothing for it, and the regular file given next was yielded.
C12_Witness ==
    /\ iter.done
    /\ files = <<Dir, FileOne>>
    /\ entries = <<"other", "other">>
    /\ Items(yielded) = <<OkItem(FileOne)>>

(***************************************************************************)
(* Claims about concurrent calls, checked under SpecConc.                  *)
(***************************************************************************)
\* The outcomes the operating system gave the system calls of a call.
EnvOf(c) == [op \in SysCalls |-> op \notin c.failed]
\* The call of c made alone: same facade, same file system, same outcomes
\* of its system calls.
Alone(c) == RunCall(c.cfg, fs, Entered(c.cfg, c.api, c.path), EnvOf(c))

\* C13: in every interleaving of the calls of several threads, a call holds
\* only a handle, a mapping or a buffer that it acquired itself, the bytes it
\* hands the Decoder are the content of its own file, and the result it
\* returns is the result of the same call made alone.
C13_CallsDoNotInterfere ==
    \A t \in Callers :
        /\ calls[t].cfg = parser \/ calls[t].pc = "idle"
        /\ "file" \in calls[t].held => "open" \notin calls[t].failed
        /\ "mmap" \in calls[t].held =>
               calls[t].maps = 1 /\ "map" \notin calls[t].failed
        /\ "buffer" \in calls[t].held =>
               calls[t].reads = 1 /\ "read" \notin calls[t].failed
        /\ calls[t].pc = "decode" => calls[t].bytes = ContentOf(calls[t])
        /\ Returned(calls[t]) => calls[t].result = Alone(calls[t]).result

\* Two calls on different files overlap: one holds its handle and the
\* mapping it is about to decode, while the other, which entered after it
\* and read its file into a buffer, has already returned a decode error.
C13_Witness ==
    \E t, u \in Callers :
        /\ t # u
        /\ calls[t].path # calls[u].path
        /\ calls[t].pc = "decode"
        /\ calls[t].held = {"file", "mmap"}
        /\ Returned(calls[u])
        /\ calls[u].via = "read"
        /\ calls[u].result.tag = "decode"

\* The call of c has invoked parse_bytes and holds its outcome.
Decoded(c) == c.decodes > 0 /\ c.pc \in {"ret", "done"}

LastValue(o) == IF o = None THEN FALSE ELSE o[1]

\* C14: after any sequence of with_crc_check, with_network_parse,
\* set_crc_check, set_network_parse and parse calls, crc_check() returns the
\* value most recently set for the CRC policy and network_parse() the value
\* most recently set for the network policy, false for a policy never set:
\* setting one policy leaves the other as it was, and the steps of a parse
\* call leave both as they were.
C14_PoliciesIndependent ==
    /\ crc_check(parser) = LastValue(lastSet.crc_check)
    /\ network_parse(parser) = LastValue(lastSet.network_parse)
    /\ \A t \in Callers : InFlight(calls[t]) => calls[t].cfg = parser

\* Both policies were switched on, one after the other, and a parse call
\* made then has returned.
C14_Witness ==
    /\ lastSet = [crc_check |-> Some(TRUE), network_parse |-> Some(TRUE)]
    /\ crc_check(parser) /\ network_parse(parser)
    /\ \E t \in Callers : Returned(calls[t]) /\ calls[t].cfg = parser

(***************************************************************************)
(* Claims about the GUI's configuration changes and saving, checked under  *)
(* SpecGui.                                                                *)
(***************************************************************************)
\* The GUI after the checkbox change of a step, before anything is parsed.
Reconfigured == [gui EXCEPT !.parser = gui'.parser]

\* C16 as stated: a step that changes the configuration parses, within the
\* step and the way an explicit open does, the input of the last successful
\* parse, under the new configuration; while no input is selected it changes
\* the configuration only.
C16_ReparsesLastSuccess ==
    [][gui'.parser # gui.parser =>
          /\ guiHist.goodPath # None =>
                 \E env \in Envs, serOk \in BOOLEAN :
                     gui' = load_path(Reconfigured, fs, guiHist.goodPath[1], env, serOk)
          /\ gui.last_path = None => gui' = Reconfigured /\ guiHist' = guiHist
      ]_vars

\* C16, amended: a step that changes the configuration parses, within the
\* step and the way an explicit open does, the input selected last, whether
\* or not its last parse succeeded, under the new configuration; while no
\* input is selected it changes the configuration only.
C16_ReparsesLastSelected ==
    [][gui'.parser # gui.parser =>
          IF gui.last_path # None
          THEN \E env \in Envs, serOk \in BOOLEAN :
                   /\ gui' = load_path(Reconfigured, fs, gui.last_path[1], env, serOk)
                   /\ guiHist' = Attempted(guiHist, "config", gui'.parser, fs,
                                           gui.last_path[1], env, serOk)
          ELSE gui' = Reconfigured /\ guiHist' = guiHist
      ]_vars

\* A configuration change has parsed the input selected last, which is not
\* the input of the last successful parse, and that parse failed again: the
\* GUI shows its error and no JSON.
C16_Witness ==
    /\ guiHist.by = "config"
    /\ guiHist.attempt = "failed"
    /\ guiHist.goodPath # None
    /\ guiHist.goodPath # gui.last_path
    /\ gui.last_json = None
    /\ gui.last_error # None

\* C17: immediately after any load_path, last_path is the attempted path,
\* last_status is cleared and exactly one of last_json and last_error is
\* set; and in every state the GUI reaches a last_json comes with a
\* last_path.
C17_AfterLoadPath ==
    [][/\ guiHist'.odd # guiHist.odd =>
              /\ gui'.last_path = guiHist'.path
              /\ gui'.last_path # None
              /\ gui'.last_status = None
              /\ (gui'.last_json = None) # (gui'.last_error = None)
       /\ gui'.last_json # None => gui'.last_path # None
      ]_vars

\* A reload has just failed on an input that had parsed before: the GUI
\* holds the path and the error, no JSON and no status (nothing can be saved
\* in this state, so no save has run since).
C17_Witness ==
    /\ guiHist.by = "reload"
    /\ guiHist.attempt = "failed"
    /\ guiHist.goodPath = gui.last_path
    /\ gui.last_path # None
    /\ gui.last_error # None
    /\ gui.last_json = None
    /\ gui.last_status = None

\* C18: in every state the GUI reaches, save_json changes nothing when there
\* is no last_json or the dialog is cancelled; with a destination chosen it
\* leaves last_json, last_path and the parser configuration as they are, and
\* afterwards exactly one of last_status and last_error is set.
C18_SaveFrame ==
    \A dest \in SaveChoices, ok \in BOOLEAN :
        LET after == save_json(gui, dest, ok) IN
        IF gui.last_json = None \/ dest = None
        THEN after = gui
        ELSE /\ after.last_json = gui.last_json
             /\ after.last_path = gui.last_path
             /\ after.parser = gui.parser
             /\ (after.last_status = None) # (after.last_error = None)

\* A save to a chosen destination has failed: the JSON is still on display,
\* next to the error of the save, and no status is.
C18_Witness ==
    /\ gui.last_json # None
    /\ gui.last_path # None
    /\ \E d \in SaveDests : gui.last_error = Some(SaveMessage(d))
    /\ gui.last_status = None

(***************************************************************************)
(* Claims about parse_path, checked under Spec.                            *)
(***************************************************************************)
\* What parse_file returns for the path of c, under the configuration of c
\* and the same outcomes of its system calls.
AsParseFile(c) ==
    RunCall(c.cfg, fs, Entered(c.cfg, "parse_file", c.path), EnvOf(c)).result

\* C19: parse_path(path) succeeds exactly when parse_file(path) does; on
\* success what it returns carries that path and the document parse_file
\* returned; on failure it returns the error of parse_file, paired with no
\* path.
C19_PathPairedWithDocument ==
    \A t \in Callers :
        Returned(calls[t]) /\ calls[t].api = "parse_path" =>
            LET mine == calls[t].result
                file == AsParseFile(calls[t])
            IN  /\ (mine.tag = "ok") = (file.tag = "ok")
                /\ file.path = NoPath
                /\ IF file.tag = "ok"
                   THEN /\ mine.path = calls[t].path
                        /\ mine.replay = file.replay
                        /\ mine = [file EXCEPT !.path = calls[t].path]
                   ELSE mine = file

\* A parse_path call has returned a document together with its path.
C19_Witness ==
    \E t \in Callers :
        /\ Returned(calls[t])
        /\ calls[t].api = "parse_path"
        /\ calls[t].result.tag = "ok"
        /\ calls[t].result.path = calls[t].path
        /\ calls[t].result.replay # NoReplay

====
